---- MODULE Spec2Model ----
(***************************************************************************)
(* Model of the Mergington High School activities API (src/src/app.py):   *)
(* a FastAPI facade over one MongoDB collection of activity documents.    *)
(*                                                                         *)
(* The collection outlives the process, so the state before start-up is   *)
(* either an empty collection or one an earlier run of the service left.  *)
(* Handlers are plain `def` endpoints: FastAPI runs each request on a     *)
(* worker thread, so the find_one and the update_one of one handler are   *)
(* two store operations that other handlers can interleave with.          *)
(***************************************************************************)
EXTENDS Integers, Sequences, FiniteSets, TLC

(* ------------------------------ bounds -------------------------------- *)

\* worker threads: requests that can be in flight at the same time
NThreads == 2

\* sign-ups an earlier run of the service left in "Math Olympiad"
MaxPrior == 7

\* write requests followed from one start-up on, where they are recorded
MaxRequests == 2

(* --------------------------- seed documents --------------------------- *)

Range(s) == {s[i] : i \in 1..Len(s)}

Doc(d, s, m, p) ==
    [description |-> d, schedule |-> s, max_participants |-> m, participants |-> p]

\* the literal list of initialize_database, keyed by "_id"
initial_activities ==
    [n \in {"Chess Club", "Programming Class", "Gym Class", "Soccer Team",
            "Basketball Club", "Art Club", "Drama Society", "Math Olympiad",
            "Science Club"} |->
      CASE n = "Chess Club" ->
             Doc("Learn strategies and compete in chess tournaments",
                 "Fridays, 3:30 PM - 5:00 PM", 12,
                 <<"michael@mergington.edu", "daniel@mergington.edu">>)
        [] n = "Programming Class" ->
             Doc("Learn programming fundamentals and build software projects",
                 "Tuesdays and Thursdays, 3:30 PM - 4:30 PM", 20,
                 <<"emma@mergington.edu", "sophia@mergington.edu">>)
        [] n = "Gym Class" ->
             Doc("Physical education and sports activities",
                 "Mondays, Wednesdays, Fridays, 2:00 PM - 3:00 PM", 30,
                 <<"john@mergington.edu", "olivia@mergington.edu">>)
        [] n = "Soccer Team" ->
             Doc("Join the school soccer team and compete in local leagues",
                 "Tuesdays and Thursdays, 4:00 PM - 5:30 PM", 18,
                 <<"lucas@mergington.edu", "mia@mergington.edu">>)
        [] n = "Basketball Club" ->
             Doc("Practice basketball skills and play friendly matches",
                 "Wednesdays, 3:30 PM - 5:00 PM", 15,
                 <<"liam@mergington.edu", "ava@mergington.edu">>)
        [] n = "Art Club" ->
             Doc("Explore painting, drawing, and other visual arts",
                 "Mondays, 3:30 PM - 5:00 PM", 16,
                 <<"noah@mergington.edu", "isabella@mergington.edu">>)
        [] n = "Drama Society" ->
             Doc("Participate in acting, stage production, and school plays",
                 "Thursdays, 4:00 PM - 5:30 PM", 20,
                 <<"ethan@mergington.edu", "charlotte@mergington.edu">>)
        [] n = "Math Olympiad" ->
             Doc("Prepare for math competitions and solve challenging problems",
                 "Fridays, 2:00 PM - 3:30 PM", 10,
                 <<"amelia@mergington.edu", "benjamin@mergington.edu">>)
        [] OTHER ->
             Doc("Conduct experiments and explore scientific concepts",
                 "Wednesdays, 4:00 PM - 5:00 PM", 14,
                 <<"elijah@mergington.edu", "harper@mergington.edu">>)]

\* an empty collection: the function with no document
EmptyCollection == [n \in {} |-> Doc("", "", 0, <<>>)]

(* ------------------ collections left by an earlier run ---------------- *)

\* addresses an earlier run signed up for "Math Olympiad", in this order
PriorSignups ==
    <<"p1@mergington.edu", "p2@mergington.edu", "p3@mergington.edu",
      "p4@mergington.edu", "p5@mergington.edu", "p6@mergington.edu",
      "p7@mergington.edu", "p8@mergington.edu", "p9@mergington.edu">>

\* the seeded collection after the first k of PriorSignups were signed up
\* for "Math Olympiad", one request at a time
PriorCollection(k) ==
    [initial_activities EXCEPT !["Math Olympiad"].participants =
        @ \o SubSeq(PriorSignups, 1, k)]

\* never more sign-ups than one-at-a-time requests can have made
PriorCollections ==
    {PriorCollection(k) : k \in {j \in {MaxPrior} :
        /\ j <= Len(PriorSignups)
        /\ Len(initial_activities["Math Olympiad"].participants) + j
              <= initial_activities["Math Olympiad"].max_participants}}

(* ------------------------------ requests ------------------------------ *)

\* the (activity_name, email) parameters requests carry: a seeded and two
\* new addresses for "Math Olympiad", a new address for a second activity,
\* and an activity that does not exist
Requests ==
    {<<"Math Olympiad", "amelia@mergington.edu">>,
     <<"Math Olympiad", "new@mergington.edu">>,
     <<"Math Olympiad", "zoe@mergington.edu">>,
     <<"Chess Club", "new@mergington.edu">>,
     <<"Unknown Club", "new@mergington.edu">>}

\* the update_one calls of the two write handlers
Writes ==
    {[op |-> o, name |-> r[1], email |-> r[2]] :
        o \in {"$addToSet", "$pull"}, r \in Requests}

(* ------------------------------ responses ----------------------------- *)

\* the HTTP responses of the facade: status, the "detail" of an error, the
\* words of a {"message": ...} body, the object of a JSON body, the target
\* of a redirect
Reply(code, text, words, obj, url) ==
    [status |-> code, detail |-> text, message |-> words, content |-> obj,
     location |-> url]

\* no response was sent
NoResponse == Reply(0, "", <<>>, EmptyCollection, "")

HTTPException(code, text) == Reply(code, text, <<>>, EmptyCollection, "")

\* 200 with {"message": f"{verb} {email} {prep} {activity_name}"}
Message(verb, email, prep, name) ==
    Reply(200, "", <<verb, email, prep, name>>, EmptyCollection, "")

\* 200 with the returned dict as JSON body
JSONResponse(obj) == Reply(200, "", <<>>, obj, "")

RedirectResponse(url) == Reply(307, "", <<>>, EmptyCollection, url)

(* -------------------------- store operations -------------------------- *)

count_documents(coll) == Cardinality(DOMAIN coll)

\* insert_many into a collection holding none of the inserted _ids
insert_many(coll, docs) ==
    [n \in DOMAIN coll \cup DOMAIN docs |->
        IF n \in DOMAIN coll THEN coll[n] ELSE docs[n]]

\* $push in place of $addToSet: appends whatever the array holds
Push(arr, v) == Append(arr, v)

\* $set in place of $addToSet: the array becomes the one value
SetToValue(arr, v) == <<v>>

\* $addToSet: append the value unless the array already holds it
AddToSet(arr, v) == IF v \in Range(arr) THEN arr ELSE Append(arr, v)

\* $pop in place of $pull: removes the last element, whatever it is
Pop(arr, v) == SubSeq(arr, 1, Len(arr) - 1)

\* $pull: remove every occurrence of the value
Pull(arr, v) == SelectSeq(arr, LAMBDA x : x # v)

\* update_one with a filter on a field no document has: matches nothing
update_one_NoMatch(coll, name, op, v) == coll

\* update_one with a replacement document in place of an update operator:
\* the stored document keeps nothing but what the update names
update_one_Replace(coll, name, op, v) ==
    IF name \notin DOMAIN coll THEN coll
    ELSE [coll EXCEPT ![name] =
             Doc("", "", 0,
                 IF op = "$addToSet" THEN AddToSet(@.participants, v)
                 ELSE Pull(@.participants, v))]

\* update_many with the filter {}: the update reaches every document
update_one_EveryDocument(coll, name, op, v) ==
    [n \in DOMAIN coll |->
        [coll[n] EXCEPT !.participants =
            IF op = "$addToSet" THEN AddToSet(@, v) ELSE Pull(@, v)]]

\* update_one({"_id": name}, {op: {"participants": v}}): one atomic document
\* update; a filter that matches no document changes nothing
update_one(coll, name, op, v) ==
    IF name \notin DOMAIN coll THEN coll
    ELSE [coll EXCEPT ![name].participants =
             IF op = "$addToSet" THEN AddToSet(@, v) ELSE Pull(@, v)]

(* -------------------------------- state ------------------------------- *)

VARIABLES
    phase,      \* "down", "connected", "serving" or "failed"
    activities_collection,  \* the persisted collection: _id -> document
    in_flight,  \* in_flight[w]: handlers past their checks, about to write w
    response,   \* the HTTP response the step just taken sent, or NoResponse
    base,       \* where requests are recorded: the collection at start-up
    log         \* where requests are recorded: the write requests answered
                \* since start-up, each with its response, in order of answer

vars == <<phase, activities_collection, in_flight, response, base, log>>

\* the record of answered requests, kept only under LogSpec
hist == <<base, log>>

RECURSIVE Sum(_, _)
Sum(f, S) ==
    IF S = {} THEN 0
    ELSE LET x == CHOOSE y \in S : TRUE IN f[x] + Sum(f, S \ {x})

\* worker threads busy with a request
Busy == Sum(in_flight, Writes)

NoneInFlight == [w \in Writes |-> 0]

Init ==
    /\ phase = "down"
    /\ activities_collection \in {EmptyCollection} \cup PriorCollections
    /\ in_flight = NoneInFlight
    /\ response = NoResponse
    /\ base = EmptyCollection
    /\ log = <<>>

(* ------------------------------ start-up ------------------------------ *)

\* module level, lines 19-29: the ping succeeds, or ConnectionFailure is
\* re-raised and the import of the module (the process) fails
Connect(ok) ==
    /\ phase = "down"
    /\ phase' = IF ok THEN "connected" ELSE "failed"
    /\ UNCHANGED <<activities_collection, in_flight, response>>

\* initialize_database without the count_documents test: seeds again
initialize_database_Reseed(coll) ==
    [n \in DOMAIN coll \cup DOMAIN initial_activities |->
        IF n \in DOMAIN initial_activities THEN initial_activities[n] ELSE coll[n]]

\* the collection initialize_database leaves
initialize_database(coll) ==
    IF count_documents(coll) = 0
    THEN insert_many(coll, initial_activities)
    ELSE coll

\* start-up without the call of initialize_database
Startup_NoSeed ==
    /\ phase = "connected"
    /\ phase' = "serving"
    /\ UNCHANGED <<activities_collection, in_flight, response>>

\* module level, line 111; the app serves once the module is imported
Startup ==
    /\ phase = "connected"
    /\ activities_collection' = initialize_database(activities_collection)
    /\ phase' = "serving"
    /\ UNCHANGED <<in_flight, response>>

\* the process ends (with requests in flight or not) and is started again;
\* the collection is in MongoDB and stays
Restart ==
    /\ phase \in {"serving", "failed"}
    /\ phase' = "down"
    /\ in_flight' = NoneInFlight
    /\ response' = NoResponse
    /\ UNCHANGED activities_collection

(* ------------------------------ endpoints ----------------------------- *)

\* a request is taken up when the app serves and a worker thread is free
Accepting == phase = "serving" /\ Busy < NThreads

\* GET /
root ==
    /\ Accepting
    /\ response' = RedirectResponse("/static/index.html")
    /\ UNCHANGED <<phase, activities_collection, in_flight>>

\* get_activities with description and schedule taken from each other's field
activities_dict_Swapped(coll) ==
    [activity_name \in DOMAIN coll |->
        [description |-> coll[activity_name].schedule,
         schedule |-> coll[activity_name].description,
         max_participants |-> coll[activity_name].max_participants,
         participants |-> coll[activity_name].participants]]

\* the dict get_activities builds from the documents of find({})
activities_dict(coll) ==
    [activity_name \in DOMAIN coll |->
        [description |-> coll[activity_name].description,
         schedule |-> coll[activity_name].schedule,
         max_participants |-> coll[activity_name].max_participants,
         participants |-> coll[activity_name].participants]]

\* GET /activities
get_activities ==
    /\ Accepting
    /\ response' = JSONResponse(activities_dict(activities_collection))
    /\ UNCHANGED <<phase, activities_collection, in_flight>>

\* signup checks with > in place of >= in the capacity test
SignupChecksOffByOne(coll, activity_name, email) ==
    IF activity_name \notin DOMAIN coll
    THEN HTTPException(404, "Activity not found")
    ELSE LET activity == coll[activity_name] IN
         IF email \in Range(activity.participants)
         THEN HTTPException(400, "Already signed up for this activity")
         ELSE IF Len(activity.participants) > activity.max_participants
         THEN HTTPException(400, "Activity is full")
         ELSE NoResponse

\* signup checks without the membership test
SignupChecksNoMembership(coll, activity_name, email) ==
    IF activity_name \notin DOMAIN coll
    THEN HTTPException(404, "Activity not found")
    ELSE LET activity == coll[activity_name] IN
         IF Len(activity.participants) >= activity.max_participants
         THEN HTTPException(400, "Activity is full")
         ELSE NoResponse

\* signup checks without the capacity test
SignupChecksNoCapacity(coll, activity_name, email) ==
    IF activity_name \notin DOMAIN coll
    THEN HTTPException(404, "Activity not found")
    ELSE LET activity == coll[activity_name] IN
         IF email \in Range(activity.participants)
         THEN HTTPException(400, "Already signed up for this activity")
         ELSE NoResponse

\* signup checks with the capacity test ahead of the membership test
SignupChecksCapacityFirst(coll, activity_name, email) ==
    IF activity_name \notin DOMAIN coll
    THEN HTTPException(404, "Activity not found")
    ELSE LET activity == coll[activity_name] IN
         IF Len(activity.participants) >= activity.max_participants
         THEN HTTPException(400, "Activity is full")
         ELSE IF email \in Range(activity.participants)
         THEN HTTPException(400, "Already signed up for this activity")
         ELSE NoResponse

\* lines 141-151 of signup_for_activity: the exception the handler raises on
\* the document find_one returned, or NoResponse when it goes on to write
SignupChecks(coll, activity_name, email) ==
    IF activity_name \notin DOMAIN coll
    THEN HTTPException(404, "Activity not found")
    ELSE LET activity == coll[activity_name] IN
         IF email \in Range(activity.participants)
         THEN HTTPException(400, "Already signed up for this activity")
         ELSE IF Len(activity.participants) >= activity.max_participants
         THEN HTTPException(400, "Activity is full")
         ELSE NoResponse

\* the update_one of signup_for_activity, lines 154-157
SignupWrite(activity_name, email) ==
    [op |-> "$addToSet", name |-> activity_name, email |-> email]

\* the update_one of unregister_from_activity, lines 175-178
UnregisterWrite(activity_name, email) ==
    [op |-> "$pull", name |-> activity_name, email |-> email]

\* POST /activities/{activity_name}/signup, up to the write: find_one and
\* the checks on the document it returned
SignupFind(activity_name, email) ==
    /\ Accepting
    /\ LET raised == SignupChecks(activities_collection, activity_name, email) IN
         IF raised # NoResponse
         THEN /\ response' = raised
              /\ UNCHANGED in_flight
         ELSE /\ in_flight' = [in_flight EXCEPT
                                  ![SignupWrite(activity_name, email)] = @ + 1]
              /\ response' = NoResponse
    /\ UNCHANGED <<phase, activities_collection>>

\* lines 153-159: update_one with $addToSet, then the 200 response
SignupUpdate(activity_name, email) ==
    /\ phase = "serving"
    /\ in_flight[SignupWrite(activity_name, email)] > 0
    /\ activities_collection' =
          update_one(activities_collection, activity_name, "$addToSet", email)
    /\ response' = Message("Signed up", email, "for", activity_name)
    /\ in_flight' = [in_flight EXCEPT ![SignupWrite(activity_name, email)] = @ - 1]
    /\ UNCHANGED phase

\* unregister checks without the membership test
UnregisterChecksNoMembership(coll, activity_name, email) ==
    IF activity_name \notin DOMAIN coll
    THEN HTTPException(404, "Activity not found")
    ELSE NoResponse

\* unregister checks that take a missing activity for one without participants
UnregisterChecksMissingAsEmpty(coll, activity_name, email) ==
    IF \/ activity_name \notin DOMAIN coll
       \/ email \notin Range(coll[activity_name].participants)
    THEN HTTPException(400, "Student not registered for this activity")
    ELSE NoResponse

\* lines 166-172 of unregister_from_activity
UnregisterChecks(coll, activity_name, email) ==
    IF activity_name \notin DOMAIN coll
    THEN HTTPException(404, "Activity not found")
    ELSE LET activity == coll[activity_name] IN
         IF email \notin Range(activity.participants)
         THEN HTTPException(400, "Student not registered for this activity")
         ELSE NoResponse

\* DELETE /activities/{activity_name}/unregister, up to the write
UnregisterFind(activity_name, email) ==
    /\ Accepting
    /\ LET raised == UnregisterChecks(activities_collection, activity_name, email) IN
         IF raised # NoResponse
         THEN /\ response' = raised
              /\ UNCHANGED in_flight
         ELSE /\ in_flight' = [in_flight EXCEPT
                                  ![UnregisterWrite(activity_name, email)] = @ + 1]
              /\ response' = NoResponse
    /\ UNCHANGED <<phase, activities_collection>>

\* lines 174-180: update_one with $pull, then the 200 response
UnregisterUpdate(activity_name, email) ==
    /\ phase = "serving"
    /\ in_flight[UnregisterWrite(activity_name, email)] > 0
    /\ activities_collection' =
          update_one(activities_collection, activity_name, "$pull", email)
    /\ response' = Message("Unregistered", email, "from", activity_name)
    /\ in_flight' = [in_flight EXCEPT ![UnregisterWrite(activity_name, email)] = @ - 1]
    /\ UNCHANGED phase

(* --------------------------- specifications --------------------------- *)

\* no handler is between its find_one and its update_one
Quiescent == Busy = 0

\* requests run on worker threads and interleave at the store operations
Next ==
    \/ (\E ok \in BOOLEAN : Connect(ok)) /\ UNCHANGED hist
    \/ Startup /\ UNCHANGED hist
    \/ Restart /\ UNCHANGED hist
    \/ root /\ UNCHANGED hist
    \/ get_activities /\ UNCHANGED hist
    \/ (\E r \in Requests : SignupFind(r[1], r[2])) /\ UNCHANGED hist
    \/ (\E r \in Requests : SignupUpdate(r[1], r[2])) /\ UNCHANGED hist
    \/ (\E r \in Requests : UnregisterFind(r[1], r[2])) /\ UNCHANGED hist
    \/ (\E r \in Requests : UnregisterUpdate(r[1], r[2])) /\ UNCHANGED hist

Spec == Init /\ [][Next]_vars

\* one request at a time: a request starts only when none is in flight
SeqNext ==
    \/ (\E ok \in BOOLEAN : Connect(ok)) /\ UNCHANGED hist
    \/ Startup /\ UNCHANGED hist
    \/ Restart /\ UNCHANGED hist
    \/ Quiescent /\ root /\ UNCHANGED hist
    \/ Quiescent /\ get_activities /\ UNCHANGED hist
    \/ (\E r \in Requests : Quiescent /\ SignupFind(r[1], r[2])) /\ UNCHANGED hist
    \/ (\E r \in Requests : SignupUpdate(r[1], r[2])) /\ UNCHANGED hist
    \/ (\E r \in Requests : Quiescent /\ UnregisterFind(r[1], r[2]))
          /\ UNCHANGED hist
    \/ (\E r \in Requests : UnregisterUpdate(r[1], r[2])) /\ UNCHANGED hist

SeqSpec == Init /\ [][SeqNext]_vars

(* ------------------- the requests of one run, recorded ---------------- *)

\* a write request and the response it got
Entry(endpoint, activity_name, email, resp) ==
    [endpoint |-> endpoint, name |-> activity_name, email |-> email,
     response |-> resp]

\* the log after a step of a write request: a step that answers is recorded
Logged(endpoint, activity_name, email) ==
    /\ log' = IF response' = NoResponse THEN log
              ELSE Append(log, Entry(endpoint, activity_name, email, response'))
    /\ UNCHANGED base

\* a further write request is followed
Followed == Len(log) + Busy < MaxRequests

\* the interleavings of Spec, with the collection at start-up and the
\* answered write requests on record; MaxRequests write requests per run
LogNext ==
    \/ (\E ok \in BOOLEAN : Connect(ok)) /\ UNCHANGED hist
    \/ Startup /\ base' = activities_collection' /\ log' = <<>>
    \/ Restart /\ UNCHANGED hist
    \/ root /\ UNCHANGED hist
    \/ get_activities /\ UNCHANGED hist
    \/ \E r \in Requests :
          Followed /\ SignupFind(r[1], r[2]) /\ Logged("signup", r[1], r[2])
    \/ \E r \in Requests :
          SignupUpdate(r[1], r[2]) /\ Logged("signup", r[1], r[2])
    \/ \E r \in Requests :
          Followed /\ UnregisterFind(r[1], r[2]) /\ Logged("unregister", r[1], r[2])
    \/ \E r \in Requests :
          UnregisterUpdate(r[1], r[2]) /\ Logged("unregister", r[1], r[2])

LogSpec == Init /\ [][LogNext]_vars

\* signup_for_activity run from its find_one to its return with no other
\* request in between: the collection it leaves and its response
signup_for_activity(coll, activity_name, email) ==
    LET raised == SignupChecks(coll, activity_name, email) IN
    IF raised # NoResponse
    THEN [coll |-> coll, response |-> raised]
    ELSE [coll |-> update_one(coll, activity_name, "$addToSet", email),
          response |-> Message("Signed up", email, "for", activity_name)]

\* unregister_from_activity run with no other request in between
unregister_from_activity(coll, activity_name, email) ==
    LET raised == UnregisterChecks(coll, activity_name, email) IN
    IF raised # NoResponse
    THEN [coll |-> coll, response |-> raised]
    ELSE [coll |-> update_one(coll, activity_name, "$pull", email),
          response |-> Message("Unregistered", email, "from", activity_name)]

\* the recorded requests run one at a time, in the given order, from coll:
\* the collection they leave, and whether each got the response on record
RECURSIVE SerialRun(_, _)
SerialRun(coll, entries) ==
    IF entries = <<>> THEN [coll |-> coll, ok |-> TRUE]
    ELSE LET e == Head(entries)
             out == IF e.endpoint = "signup"
                    THEN signup_for_activity(coll, e.name, e.email)
                    ELSE unregister_from_activity(coll, e.name, e.email)
         IN IF out.response # e.response
            THEN [coll |-> coll, ok |-> FALSE]
            ELSE SerialRun(out.coll, Tail(entries))

\* the orders in which n requests can run one at a time
Orders(n) == {f \in [1..n -> 1..n] : \A i, j \in 1..n : f[i] = f[j] => i = j}

\* the log in the order f
Reordered(f) == [i \in 1..Len(log) |-> log[f[i]]]

(* ------------------------------- claims ------------------------------- *)

Participants(activity_name) == activities_collection[activity_name].participants

Stored(activity_name) == activity_name \in DOMAIN activities_collection

AtCapacity(activity_name) ==
    Len(Participants(activity_name))
        >= activities_collection[activity_name].max_participants

\* C1: with requests handled one at a time, every activity always holds at
\* most max_participants participants.
C1_CapacitySequential ==
    \A n \in DOMAIN activities_collection :
        Len(activities_collection[n].participants)
            <= activities_collection[n].max_participants

\* a sign-up has filled "Math Olympiad" to its capacity
C1_Witness ==
    /\ Stored("Math Olympiad")
    /\ Len(Participants("Math Olympiad")) = 10
    /\ "new@mergington.edu" \in Range(Participants("Math Olympiad"))
    /\ response = Message("Signed up", "new@mergington.edu", "for", "Math Olympiad")

\* C2: under any interleaving of concurrent sign-ups, no activity ever holds
\* more participants than its max_participants.
C2_CapacityConcurrent ==
    \A n \in DOMAIN activities_collection :
        ~ (Len(Participants(n)) > activities_collection[n].max_participants)

\* C3: under any interleaving of concurrent sign-ups and unregisters, no
\* email occurs twice in a participants list.
C3_NoDuplicateEmail ==
    \A n \in DOMAIN activities_collection :
        \A i, j \in 1..Len(Participants(n)) :
            Participants(n)[i] = Participants(n)[j] => i = j

\* a sign-up that passed the membership check is about to write an email
\* that a concurrent sign-up has inserted meanwhile
C3_Witness ==
    \E w \in Writes :
        /\ w.op = "$addToSet"
        /\ in_flight[w] > 0
        /\ Stored(w.name)
        /\ w.email \in Range(Participants(w.name))
        /\ response = Message("Signed up", w.email, "for", w.name)

\* C4: a sign-up of an email that is already a participant of the activity
\* is answered 400 "Already signed up for this activity", writes nothing and
\* leaves the whole collection unchanged.
C4_AlreadySignedUp ==
    [][\A r \in Requests :
          (/\ SignupFind(r[1], r[2])
           /\ Stored(r[1])
           /\ r[2] \in Range(Participants(r[1])))
          => /\ response' = HTTPException(400, "Already signed up for this activity")
             /\ activities_collection' = activities_collection
             /\ in_flight' = in_flight]_vars

C4_Witness ==
    response = HTTPException(400, "Already signed up for this activity")

\* C5 as stated: at or over capacity every sign-up, whatever the email, is
\* answered 400 "Activity is full" and participants stay as they are.
C5_FullForEveryEmail ==
    [][\A r \in Requests :
          (/\ SignupFind(r[1], r[2])
           /\ Stored(r[1])
           /\ AtCapacity(r[1]))
          => /\ response' = HTTPException(400, "Activity is full")
             /\ activities_collection' = activities_collection]_vars

\* C5 amended: at or over capacity a sign-up of an email that is not yet a
\* participant is answered 400 "Activity is full"; a sign-up of any email
\* then writes nothing and leaves the participants as they are.
C5_FullForNewEmail ==
    [][\A r \in Requests :
          (/\ SignupFind(r[1], r[2])
           /\ Stored(r[1])
           /\ AtCapacity(r[1]))
          => /\ r[2] \notin Range(Participants(r[1]))
                  => response' = HTTPException(400, "Activity is full")
             /\ response'.status = 400
             /\ activities_collection' = activities_collection
             /\ in_flight' = in_flight]_vars

\* a sign-up was refused because "Math Olympiad" is full
C5_Witness ==
    /\ response = HTTPException(400, "Activity is full")
    /\ Stored("Math Olympiad")
    /\ AtCapacity("Math Olympiad")

\* C6: an unregister of an email that is not a participant of the activity
\* is answered 400 "Student not registered for this activity", writes
\* nothing and leaves the whole collection unchanged.
C6_NotRegistered ==
    [][\A r \in Requests :
          (/\ UnregisterFind(r[1], r[2])
           /\ Stored(r[1])
           /\ r[2] \notin Range(Participants(r[1])))
          => /\ response' = HTTPException(400, "Student not registered for this activity")
             /\ activities_collection' = activities_collection
             /\ in_flight' = in_flight]_vars

C6_Witness ==
    response = HTTPException(400, "Student not registered for this activity")

\* C7: a sign-up or an unregister that names an activity the collection does
\* not hold is answered 404 "Activity not found", writes nothing, leaves the
\* collection unchanged and creates no document of that name.
C7_ActivityNotFound ==
    [][\A r \in Requests :
          (/\ SignupFind(r[1], r[2]) \/ UnregisterFind(r[1], r[2])
           /\ ~ Stored(r[1]))
          => /\ response' = HTTPException(404, "Activity not found")
             /\ activities_collection' = activities_collection
             /\ r[1] \notin DOMAIN activities_collection'
             /\ in_flight' = in_flight]_vars

C7_Witness ==
    /\ response = HTTPException(404, "Activity not found")
    /\ ~ Stored("Unknown Club")
    /\ phase = "serving"

\* C8: with no concurrent request, a sign-up of an email that is not a
\* participant of an activity below capacity goes on to its write, and the
\* write appends the email to the participants, changes nothing else, is
\* answered 200, and GET /activities then lists the email.
C8_SignupSucceeds ==
    [][\A r \in Requests :
          /\ (/\ SignupFind(r[1], r[2])
              /\ Stored(r[1])
              /\ ~ AtCapacity(r[1])
              /\ r[2] \notin Range(Participants(r[1])))
             => /\ in_flight'[SignupWrite(r[1], r[2])] = 1
                /\ response' = NoResponse
                /\ activities_collection' = activities_collection
          /\ SignupUpdate(r[1], r[2])
             => /\ response'.status = 200
                /\ response' = Message("Signed up", r[2], "for", r[1])
                /\ DOMAIN activities_collection' = DOMAIN activities_collection
                /\ activities_collection'[r[1]].participants
                      = Append(Participants(r[1]), r[2])
                /\ \A n \in DOMAIN activities_collection \ {r[1]} :
                      activities_collection'[n] = activities_collection[n]
                /\ r[2] \in Range(activities_dict(activities_collection')[r[1]]
                                      .participants)
                /\ in_flight' = NoneInFlight]_vars

\* a sign-up on the freshly seeded collection has been answered
C8_Witness ==
    /\ response = Message("Signed up", "new@mergington.edu", "for", "Chess Club")
    /\ Stored("Chess Club")
    /\ Participants("Chess Club")
          = <<"michael@mergington.edu", "daniel@mergington.edu",
              "new@mergington.edu">>

\* C9: with no concurrent request, an unregister of a participant goes on to
\* its write; the write removes that email and no other, and is answered
\* 200; the same unregister right after it is answered 400 "Student not
\* registered for this activity".
C9_UnregisterThenRepeat ==
    [][\A r \in Requests :
          /\ (/\ UnregisterFind(r[1], r[2])
              /\ Stored(r[1])
              /\ r[2] \in Range(Participants(r[1])))
             => /\ in_flight'[UnregisterWrite(r[1], r[2])] = 1
                /\ response' = NoResponse
                /\ activities_collection' = activities_collection
          /\ UnregisterUpdate(r[1], r[2])
             => /\ response'.status = 200
                /\ response' = Message("Unregistered", r[2], "from", r[1])
                /\ r[2] \notin Range(activities_collection'[r[1]].participants)
                /\ Range(activities_collection'[r[1]].participants)
                      = Range(Participants(r[1])) \ {r[2]}
                /\ Len(activities_collection'[r[1]].participants)
                      = Len(Participants(r[1])) - 1
                /\ \A n \in DOMAIN activities_collection \ {r[1]} :
                      activities_collection'[n] = activities_collection[n]
          /\ (/\ response = Message("Unregistered", r[2], "from", r[1])
              /\ UnregisterFind(r[1], r[2]))
             => response' = HTTPException(400, "Student not registered for this activity")]_vars

\* the repeated unregister of a seeded participant has been refused
C9_Witness ==
    /\ response = HTTPException(400, "Student not registered for this activity")
    /\ Stored("Math Olympiad")
    /\ Participants("Math Olympiad") = <<"benjamin@mergington.edu">>

\* C10: start-up inserts the 9 fixed activities exactly when the collection
\* holds no document, and leaves a collection that holds any document as it
\* is, also one that sign-ups and unregisters have changed since a first run.
C10_SeedIfEmpty ==
    [][(phase = "connected" /\ phase' = "serving")
          => /\ (DOMAIN activities_collection = {})
                  => /\ Cardinality(DOMAIN activities_collection') = 9
                     /\ activities_collection' = initial_activities
             /\ (DOMAIN activities_collection # {})
                  => activities_collection' = activities_collection]_vars

\* a second start-up has run on the collection the first one seeded and a
\* sign-up changed since
C10_Witness ==
    /\ phase = "serving"
    /\ response = NoResponse
    /\ Busy = 0
    /\ Stored("Math Olympiad")
    /\ Participants("Math Olympiad")
          = <<"amelia@mergington.edu", "benjamin@mergington.edu",
              "new@mergington.edu">>

\* C11: once the app serves, no step of any request adds or removes a
\* document or changes a description, a schedule or a max_participants: a
\* request changes participants lists and nothing else.
C11_OnlyParticipantsChange ==
    [][(phase = "serving" /\ phase' = "serving")
          => /\ DOMAIN activities_collection' = DOMAIN activities_collection
             /\ \A n \in DOMAIN activities_collection :
                   /\ activities_collection'[n].description
                         = activities_collection[n].description
                   /\ activities_collection'[n].schedule
                         = activities_collection[n].schedule
                   /\ activities_collection'[n].max_participants
                         = activities_collection[n].max_participants
                   /\ DOMAIN activities_collection'[n]
                         = DOMAIN activities_collection[n]]_vars

\* an unregister and a sign-up have both written to "Math Olympiad"
C11_Witness ==
    /\ phase = "serving"
    /\ Stored("Math Olympiad")
    /\ "amelia@mergington.edu" \notin Range(Participants("Math Olympiad"))
    /\ "zoe@mergington.edu" \in Range(Participants("Math Olympiad"))
    /\ activities_collection["Math Olympiad"].max_participants = 10

\* C12: GET /activities leaves the collection unchanged and answers 200 with
\* a mapping whose keys are exactly the stored activity names and whose value
\* for each name carries the stored description, schedule, max_participants
\* and participants, and no other key.
C12_GetActivities ==
    [][get_activities
          => /\ activities_collection' = activities_collection
             /\ in_flight' = in_flight
             /\ response'.status = 200
             /\ DOMAIN response'.content = DOMAIN activities_collection
             /\ \A n \in DOMAIN activities_collection :
                   /\ DOMAIN response'.content[n]
                         = {"description", "schedule", "max_participants",
                            "participants"}
                   /\ response'.content[n].description
                         = activities_collection[n].description
                   /\ response'.content[n].schedule
                         = activities_collection[n].schedule
                   /\ response'.content[n].max_participants
                         = activities_collection[n].max_participants
                   /\ response'.content[n].participants
                         = activities_collection[n].participants]_vars

\* GET /activities has been answered after a sign-up changed a list
C12_Witness ==
    /\ phase = "serving"
    /\ DOMAIN response.content = DOMAIN initial_activities
    /\ response.content["Chess Club"].participants
          = <<"michael@mergington.edu", "daniel@mergington.edu",
              "new@mergington.edu">>

\* C13: the app starts to serve only from a verified connection and with the
\* collection seeded, a request is handled only while the app serves, and a
\* process whose ping failed neither seeds nor serves: it stays failed until
\* it is started again.
C13_StartupOrder ==
    [][/\ (phase' = "connected" /\ phase # "connected") => phase = "down"
       /\ (phase' = "serving" /\ phase # "serving")
             => /\ phase = "connected"
                /\ count_documents(activities_collection') > 0
       /\ (response' # NoResponse \/ in_flight' # NoneInFlight)
             => /\ phase = "serving"
                /\ phase' = "serving"
                /\ count_documents(activities_collection) > 0
       /\ phase' = "failed"
             => /\ phase \in {"down", "failed"}
                /\ activities_collection' = activities_collection
                /\ response' = NoResponse
                /\ in_flight' = NoneInFlight
       /\ phase = "failed" => phase' \in {"failed", "down"}]_vars

\* the ping failed on an empty collection: nothing was seeded or served
C13_Witness ==
    /\ phase = "failed"
    /\ activities_collection = EmptyCollection
    /\ response = NoResponse

\* C16: a write request is answered 200 only by a step whose update_one
\* changed the list: the sign-up's step inserts the email, the unregister's
\* step removes it.
C16_OkMeansChanged ==
    [][\A r \in Requests :
          /\ SignupUpdate(r[1], r[2])
                => /\ r[2] \notin Range(Participants(r[1]))
                   /\ r[2] \in Range(activities_collection'[r[1]].participants)
          /\ UnregisterUpdate(r[1], r[2])
                => /\ r[2] \in Range(Participants(r[1]))
                   /\ r[2] \notin Range(activities_collection'[r[1]].participants)]_vars

\* C17: on an activity at capacity, a sign-up of an email that is already a
\* participant is answered 400 "Already signed up for this activity", not
\* "Activity is full"; a not-found activity is answered before either.
C17_CheckOrder ==
    [][\A r \in Requests :
          SignupFind(r[1], r[2])
          => /\ ~ Stored(r[1])
                  => response' = HTTPException(404, "Activity not found")
             /\ (/\ Stored(r[1])
                 /\ AtCapacity(r[1])
                 /\ r[2] \in Range(Participants(r[1])))
                  => /\ response'.detail = "Already signed up for this activity"
                     /\ response'.detail # "Activity is full"
                     /\ response'.status = 400]_vars

\* a participant of the full "Math Olympiad" signed up again
C17_Witness ==
    /\ response = HTTPException(400, "Already signed up for this activity")
    /\ Stored("Math Olympiad")
    /\ Len(Participants("Math Olympiad")) >= 10

\* C18: every step of a sign-up or an unregister that names an activity
\* leaves the documents of all other activities as they are.
C18_OtherActivitiesUntouched ==
    [][\A r \in Requests :
          (\/ SignupFind(r[1], r[2])
           \/ SignupUpdate(r[1], r[2])
           \/ UnregisterFind(r[1], r[2])
           \/ UnregisterUpdate(r[1], r[2]))
          => /\ DOMAIN activities_collection' = DOMAIN activities_collection
             /\ \A n \in DOMAIN activities_collection \ {r[1]} :
                   activities_collection'[n] = activities_collection[n]]_vars

\* an email that is a participant of two activities was unregistered from
\* one of them and is still a participant of the other
C18_Witness ==
    /\ response = Message("Unregistered", "new@mergington.edu", "from", "Math Olympiad")
    /\ "new@mergington.edu" \in Range(Participants("Chess Club"))
    /\ "new@mergington.edu" \notin Range(Participants("Math Olympiad"))

\* C14: once all requests of a run are answered, some one-at-a-time order of
\* the same requests, run from the collection at start-up, gives every
\* request the response it got and leaves every activity the participants
\* it has.
C14_Serializable ==
    (phase = "serving" /\ Busy = 0)
    => \E f \in Orders(Len(log)) :
          LET run == SerialRun(base, Reordered(f)) IN
          /\ run.ok
          /\ \A n \in DOMAIN activities_collection :
                Range(run.coll[n].participants) = Range(Participants(n))

\* the write requests on record name, per activity, pairwise different emails
DifferentEmails ==
    \A i, j \in 1..Len(log) :
        (log[i].name = log[j].name /\ log[i].email = log[j].email) => i = j

\* C15: once all requests of a run are answered, and they were for pairwise
\* different emails, every email whose sign-up was answered 200 is in the
\* participants of its activity and every email whose unregister was
\* answered 200 is not, whatever the interleaving.
C15_NoLostUpdate ==
    (phase = "serving" /\ Busy = 0 /\ DifferentEmails)
    => \A i \in 1..Len(log) :
          log[i].response.status = 200
          => IF log[i].endpoint = "signup"
             THEN log[i].email \in Range(Participants(log[i].name))
             ELSE log[i].email \notin Range(Participants(log[i].name))

\* two sign-ups of different emails raced for the last place of "Math
\* Olympiad" (only a race gets both in), both were answered 200 and both
\* emails are in the list
C15_Witness ==
    /\ phase = "serving"
    /\ Busy = 0
    /\ Len(log) = 2
    /\ \A i \in 1..2 :
          /\ log[i].endpoint = "signup"
          /\ log[i].name = "Math Olympiad"
          /\ log[i].response.status = 200
    /\ log[1].email # log[2].email
    /\ Len(base["Math Olympiad"].participants) = 9
    /\ Len(Participants("Math Olympiad")) = 11

\* the documents of two collections agree, participants compared as sets
SameAsSets(c1, c2) ==
    /\ DOMAIN c1 = DOMAIN c2
    /\ \A n \in DOMAIN c1 :
          /\ c1[n].description = c2[n].description
          /\ c1[n].schedule = c2[n].schedule
          /\ c1[n].max_participants = c2[n].max_participants
          /\ Range(c1[n].participants) = Range(c2[n].participants)

\* the first two requests on record are the endpoints first and second with
\* the parameters r, and the first was answered 200
FirstTwo(first, second, r) ==
    /\ Len(log) >= 2
    /\ log[1] = Entry(first, r[1], r[2], log[1].response)
    /\ log[1].response.status = 200
    /\ log[2] = Entry(second, r[1], r[2], log[2].response)

\* C19: a sign-up of an email that is not a participant of an activity below
\* capacity is answered 200, the unregister of the same email that follows
\* it is answered 200 and the collection is then as it was, participants
\* compared as sets; and an unregister of a participant is answered 200, the
\* sign-up of the same email that follows it is answered 200 and the
\* collection is then as it was, participants compared as sets.
C19_RoundTrip ==
    \A r \in Requests :
        /\ (/\ Len(log) >= 1
            /\ log[1] = Entry("signup", r[1], r[2], log[1].response)
            /\ r[1] \in DOMAIN base
            /\ r[2] \notin Range(base[r[1]].participants)
            /\ Len(base[r[1]].participants) < base[r[1]].max_participants)
           => log[1].response.status = 200
        /\ (/\ Len(log) >= 1
            /\ log[1] = Entry("unregister", r[1], r[2], log[1].response)
            /\ r[1] \in DOMAIN base
            /\ r[2] \in Range(base[r[1]].participants))
           => log[1].response.status = 200
        /\ (FirstTwo("signup", "unregister", r) \/ FirstTwo("unregister", "signup", r))
           => /\ log[2].response.status = 200
              /\ (Len(log) = 2 /\ Busy = 0)
                    => SameAsSets(activities_collection, base)

====
